---- MODULE Spec2Model ----
(***************************************************************************)
(* resize_tfrecords_mpi.py: every worker of an MPI launch lists the input  *)
(* shards, takes the shards at indices rank, rank+size, ... and rewrites   *)
(* each one record by record into output_dir under the shard's basename.   *)
(*                                                                         *)
(* A path is a sequence of components (<<dir, name>>), so basename and     *)
(* join are computed and not assumed.  A float32 is the integer count of   *)
(* its mantissa units; a Python float is that count widened by F64Ext.     *)
(* Python exceptions are not caught anywhere in the script: whatever       *)
(* raises unwinds the "with" blocks and ends the process with status 1.    *)
(***************************************************************************)
EXTENDS Integers, Sequences, FiniteSets, TLC

(* ------------------------------ bounds -------------------------------- *)
MaxSize == 2
MaxShards == 3
MaxRecords == 2
MaxBoxes == 2
MaxRuns == 2
MaxRerunShards == 2
MaxPartition == 5

Ranks == 0..(MaxSize - 1)

(* ------------------------------ paths --------------------------------- *)
InputDir == 1
OtherDir == 2
OutputDir == 0

output_dir == <<OutputDir>>

basename(p) == p[Len(p)]

join(dir, name) == dir \o <<name>>

\* Python compares strings component by component, first difference decides.
PathLess(p, q) ==
    \/ p[1] < q[1]
    \/ p[1] = q[1] /\ p[2] < q[2]

RECURSIVE sorted(_)
sorted(S) ==
    IF S = {} THEN <<>>
    ELSE LET m == CHOOSE x \in S : \A y \in S \ {x} : PathLess(x, y)
         IN  <<m>> \o sorted(S \ {m})

GlobNames == 1..2
GlobPaths == {<<d, b>> : d \in {InputDir, OtherDir}, b \in GlobNames}
OutPaths == {join(output_dir, b) : b \in 1..MaxPartition}

(* ----------------------------- records -------------------------------- *)
F64Ext == 536870912

\* list(float_list.value): float32 -> Python float (exact widening)
ToPyFloat(v) == v * F64Ext
\* FloatList(value=...): Python float -> float32, round to nearest
ToFloat32(x) == (x + (F64Ext \div 2)) \div F64Ext
\* list(....float_list.value)
float_list(value) == [k \in 1..Len(value) |-> ToPyFloat(value[k])]

resize_factor == 3

\* A file of output_dir: missing, or there with the records it holds
Absent == [exists |-> FALSE, records |-> <<>>]

\* The wire form of one record of an input shard.
\*   wire = "ok"            decodes, image decodes
\*   wire = "corrupt_image" decodes, image/encoded is no JPEG
\*   wire = "malformed"     ParseFromString fails or a required field is missing
\*   wire = "bad_header"    the record-length header is damaged
Wires == {"ok", "corrupt_image", "malformed", "bad_header"}

MkRecord(wire, name, label, boxes, h, w) ==
    [wire     |-> wire,
     filename |-> <<InputDir, name>>,
     label    |-> label,
     synset   |-> label + 10,
     human    |-> label + 20,
     xmin     |-> [k \in 1..Len(boxes) |-> boxes[k][1]],
     ymin     |-> [k \in 1..Len(boxes) |-> boxes[k][2]],
     xmax     |-> [k \in 1..Len(boxes) |-> boxes[k][3]],
     ymax     |-> [k \in 1..Len(boxes) |-> boxes[k][4]],
     height   |-> h,
     width    |-> w,
     encoded  |-> [len |-> h * w, h |-> h, w |-> w]]


(* --------------------- the Example proto builders --------------------- *)
_bytes_feature(value) == <<value>>

\* a scalar is wrapped into a one-element list
_int64_feature(value) == <<value>>

\* a list is stored as it is
_int64_list_feature(value) == value

\* Mutant: the coordinates are scaled with the image.
_float_feature_scaled(value) ==
    [k \in 1..Len(value) |-> ToFloat32(value[k]) * resize_factor]

_float_feature(value) == [k \in 1..Len(value) |-> ToFloat32(value[k])]

\* Mutant: the label is stored once, whatever the number of boxes.
Repeat_once(x, n) == <<x>>

\* [label] * len(xmin)
Repeat(x, n) == [k \in 1..n |-> x]

_convert_to_example(filename, image_buffer, label, synset, human, xmin, ymin, xmax, ymax, height, width) ==
    [image_height            |-> _int64_feature(height),
     image_width             |-> _int64_feature(width),
     image_colorspace        |-> _bytes_feature("RGB"),
     image_channels          |-> _int64_feature(3),
     image_class_label       |-> _int64_feature(label),
     image_class_synset      |-> _bytes_feature(synset),
     image_class_text        |-> _bytes_feature(human),
     image_object_bbox_xmin  |-> _float_feature(xmin),
     image_object_bbox_xmax  |-> _float_feature(xmax),
     image_object_bbox_ymin  |-> _float_feature(ymin),
     image_object_bbox_ymax  |-> _float_feature(ymax),
     image_object_bbox_label |-> _int64_list_feature(Repeat(label, Len(xmin))),
     image_format            |-> _bytes_feature("JPEG"),
     image_filename          |-> _bytes_feature(basename(filename)),
     image_encoded           |-> _bytes_feature(image_buffer)]

(* ------------------- one iteration of the record loop ----------------- *)
\* Mutant: the stored dimensions are left as they were.
new_size_unscaled(original) == original

\* int(original * resize_factor): the product of an integer and 3.0 is an
\* integral float, which int() returns unchanged.
new_size(original) == original * resize_factor

\* decode_jpeg, resize_images to [new_height, new_width], encode_jpeg
resize_jpeg(original_encoded, new_height, new_width) ==
    [len |-> new_height * new_width, h |-> new_height, w |-> new_width]

\* Lines 95-146 for a record that decodes: the Example that is written.
resize_record(record_string) ==
    LET filename   == record_string.filename
        label      == record_string.label
        synset     == record_string.synset
        human      == record_string.human
        xmin       == float_list(record_string.xmin)
        ymin       == float_list(record_string.ymin)
        xmax       == float_list(record_string.xmax)
        ymax       == float_list(record_string.ymax)
        original_height == record_string.height
        original_width  == record_string.width
        new_height == new_size(original_height)
        new_width  == new_size(original_width)
        resized_encoded ==
            resize_jpeg(record_string.encoded, new_height, new_width)
    IN  _convert_to_example(filename, resized_encoded, label, synset, human,
                            xmin, ymin, xmax, ymax, new_height, new_width)

\* What the failing statement of an iteration raises, by the record's form.
FatalOf(wire) ==
    CASE wire = "bad_header"    -> "io"
      [] wire = "malformed"     -> "decode"
      [] wire = "corrupt_image" -> "image"

(* ------------------------------- state -------------------------------- *)
VARIABLES
    size,                       \* OMPI_COMM_WORLD_SIZE of the launch
    inputFiles,                 \* input shard path -> its records
    outputFiles,                \* output path -> the file there, or Absent
    pc,                         \* per rank: where the process is
    input_tf_record_filenames,  \* per rank: sorted(glob(input_files))
    i,                          \* per rank: index of the current shard
    tf_record_iterator,         \* per rank: records already read
    image_count,                \* per rank
    original_len_total,         \* per rank
    resized_len_total,          \* per rank
    writers,                    \* per rank: output paths with an open writer
    visited,                    \* per rank: indices given to process_tf_record_file
    completed,                  \* per rank: indices whose call returned
    opened,                     \* per rank: output paths opened for writing
    replaced,                   \* per rank: what the output held when opened
    fatal,                      \* per rank: what ended the process, if anything
    exit_status,                \* per rank: status of the ended process
    run                         \* number of the launch

vars == <<size, inputFiles, outputFiles, pc, input_tf_record_filenames, i,
          tf_record_iterator, image_count, original_len_total,
          resized_len_total, writers, visited, completed, opened, replaced,
          fatal, exit_status, run>>

num_files(r) == Len(input_tf_record_filenames[r])

input_tf_record_filename(r) == input_tf_record_filenames[r][i[r] + 1]

\* Mutant: the output is named after the directory of the input shard.
output_tf_record_filename_of_dir(r) ==
    join(output_dir, input_tf_record_filename(r)[1])

output_tf_record_filename(r) ==
    join(output_dir, basename(input_tf_record_filename(r)))

\* glob(input_files): the shard files that exist
glob == DOMAIN inputFiles

(* --------------------------- initial states --------------------------- *)
NotStarted ==
    /\ pc = [r \in Ranks |-> "idle"]
    /\ input_tf_record_filenames = [r \in Ranks |-> <<>>]
    /\ i = [r \in Ranks |-> 0]
    /\ tf_record_iterator = [r \in Ranks |-> 0]
    /\ image_count = [r \in Ranks |-> 0]
    /\ original_len_total = [r \in Ranks |-> 0]
    /\ resized_len_total = [r \in Ranks |-> 0]
    /\ writers = [r \in Ranks |-> {}]
    /\ visited = [r \in Ranks |-> <<>>]
    /\ completed = [r \in Ranks |-> {}]
    /\ opened = [r \in Ranks |-> {}]
    /\ replaced = [r \in Ranks |-> Absent]
    /\ fatal = [r \in Ranks |-> "none"]
    /\ exit_status = [r \in Ranks |-> -1]

\* Shard contents of the runs: records that decode or hold a corrupt image,
\* named by their position in the shard.
RunWires == {"ok", "corrupt_image"}

RunRecord(wire, k) == MkRecord(wire, k, k, <<<<0, 1, 2, 3>>>>, 1, 2)

RunContents ==
    UNION {{[k \in 1..n |-> RunRecord(ws[k], k)] : ws \in [1..n -> RunWires]}
           : n \in 0..MaxRecords}

\* One launch over the shards of one input directory, output_dir empty.
Init ==
    /\ size \in 1..MaxSize
    /\ \E n \in 0..MaxShards :
          inputFiles \in [{<<InputDir, b>> : b \in 1..n} -> RunContents]
    /\ outputFiles = [p \in OutPaths |-> Absent]
    /\ run = 1
    /\ NotStarted

(* ------------------------------ actions ------------------------------- *)
\* Mutant: the exception is caught and the loop of worker goes on.
Raise_and_continue(r, cause) ==
    /\ pc' = [pc EXCEPT ![r] = "while"]
    /\ fatal' = [fatal EXCEPT ![r] = cause]
    /\ exit_status' = exit_status
    /\ writers' = [writers EXCEPT ![r] = {}]

\* An uncaught exception: the with blocks close the writer, the interpreter
\* prints the traceback and exits with status 1.
Raise(r, cause) ==
    /\ pc' = [pc EXCEPT ![r] = "aborted"]
    /\ fatal' = [fatal EXCEPT ![r] = cause]
    /\ exit_status' = [exit_status EXCEPT ![r] = 1]
    /\ writers' = [writers EXCEPT ![r] = {}]

\* Mutant: the writer appends to the file that is there.
TFRecordWriter_append(old) == [exists |-> TRUE, records |-> old.records]

\* TFRecordWriter(path): creates the file, or truncates the one that is there
TFRecordWriter(old) == [exists |-> TRUE, records |-> <<>>]

\* Mutant: every write starts the file over.
writer_write_over(file, example) == [file EXCEPT !.records = <<example>>]

\* writer.write(example.SerializeToString()): the record is appended
writer_write(file, example) ==
    [file EXCEPT !.records = Append(@, example)]

\* Mutant: the index advances by one, whatever the number of ranks.
next_index_by_one(index, step) == index + 1

\* i += size
next_index(index, step) == index + step

\* Mutant: the writer is left open.
close_writer_leak(open, path) == open

\* leaving "with TFRecordWriter(...) as writer": the writer is closed
close_writer(open, path) == open \ {path}

\* main and the head of worker: the shard list and the first index
main(r) ==
    /\ pc[r] = "idle"
    /\ input_tf_record_filenames' =
          [input_tf_record_filenames EXCEPT ![r] = sorted(glob)]
    /\ i' = [i EXCEPT ![r] = r]
    /\ pc' = [pc EXCEPT ![r] = "while"]
    /\ UNCHANGED <<size, inputFiles, outputFiles, tf_record_iterator,
                   image_count, original_len_total, resized_len_total,
                   writers, visited, completed, opened, replaced, fatal, exit_status, run>>

\* while (i < num_files) is false: worker and main return, exit status 0
worker_return(r) ==
    /\ pc[r] = "while"
    /\ ~(i[r] < num_files(r))
    /\ pc' = [pc EXCEPT ![r] = "done"]
    /\ exit_status' = [exit_status EXCEPT ![r] = 0]
    /\ UNCHANGED <<size, inputFiles, outputFiles, input_tf_record_filenames,
                   i, tf_record_iterator, image_count, original_len_total,
                   resized_len_total, writers, visited, completed, opened, replaced, fatal, run>>

\* The loop body up to the open writer: the counters are reset and the
\* output file is created or truncated.
process_tf_record_file(r) ==
    /\ pc[r] = "while"
    /\ i[r] < num_files(r)
    /\ visited' = [visited EXCEPT ![r] = Append(@, i[r])]
    /\ tf_record_iterator' = [tf_record_iterator EXCEPT ![r] = 0]
    /\ original_len_total' = [original_len_total EXCEPT ![r] = 0]
    /\ resized_len_total' = [resized_len_total EXCEPT ![r] = 0]
    /\ image_count' = [image_count EXCEPT ![r] = 0]
    /\ outputFiles' = [outputFiles EXCEPT
          ![output_tf_record_filename(r)] = TFRecordWriter(@)]
    /\ writers' = [writers EXCEPT ![r] = @ \cup {output_tf_record_filename(r)}]
    /\ pc' = [pc EXCEPT ![r] = "for"]
    /\ opened' = [opened EXCEPT ![r] = @ \cup {output_tf_record_filename(r)}]
    /\ replaced' = [replaced EXCEPT
          ![r] = outputFiles[output_tf_record_filename(r)]]
    /\ UNCHANGED <<size, inputFiles, input_tf_record_filenames, i, completed,
                   fatal, exit_status, run>>

\* The same, when the output file cannot be opened: the file is untouched.
writer_open_error(r) ==
    /\ pc[r] = "while"
    /\ i[r] < num_files(r)
    /\ visited' = [visited EXCEPT ![r] = Append(@, i[r])]
    /\ Raise(r, "io")
    /\ UNCHANGED <<size, inputFiles, outputFiles, input_tf_record_filenames,
                   i, tf_record_iterator, image_count, original_len_total,
                   resized_len_total, completed, opened, replaced, run>>

\* One iteration of the for loop over a record that decodes
for_record(r) ==
    /\ pc[r] = "for"
    /\ tf_record_iterator[r] < Len(inputFiles[input_tf_record_filename(r)])
    /\ LET record_string ==
              inputFiles[input_tf_record_filename(r)][tf_record_iterator[r] + 1]
           example == resize_record(record_string)
       IN  /\ record_string.wire = "ok"
           /\ tf_record_iterator' = [tf_record_iterator EXCEPT ![r] = @ + 1]
           /\ image_count' = [image_count EXCEPT ![r] = @ + 1]
           /\ original_len_total' = [original_len_total EXCEPT
                 ![r] = @ + record_string.encoded.len]
           /\ resized_len_total' = [resized_len_total EXCEPT
                 ![r] = @ + example.image_encoded[1].len]
           /\ outputFiles' = [outputFiles EXCEPT
                 ![output_tf_record_filename(r)] = writer_write(@, example)]
    /\ UNCHANGED <<size, inputFiles, pc, input_tf_record_filenames, i,
                   writers, visited, completed, opened, replaced, fatal, exit_status, run>>

\* One iteration over a record that cannot be read, decoded or resized:
\* the statement raises before writer.write is reached.
for_record_raises(r) ==
    /\ pc[r] = "for"
    /\ tf_record_iterator[r] < Len(inputFiles[input_tf_record_filename(r)])
    /\ LET record_string ==
              inputFiles[input_tf_record_filename(r)][tf_record_iterator[r] + 1]
       IN  /\ record_string.wire # "ok"
           /\ image_count' = [image_count EXCEPT
                 ![r] = IF record_string.wire = "bad_header" THEN @ ELSE @ + 1]
           /\ original_len_total' = [original_len_total EXCEPT
                 ![r] = IF record_string.wire = "corrupt_image"
                        THEN @ + record_string.encoded.len ELSE @]
           /\ Raise(r, FatalOf(record_string.wire))
    /\ UNCHANGED <<size, inputFiles, outputFiles, input_tf_record_filenames,
                   i, tf_record_iterator, resized_len_total, visited,
                   completed, opened, replaced, run>>

\* The read of the next record, or the write of its Example, fails.
for_record_io_error(r) ==
    /\ pc[r] = "for"
    /\ tf_record_iterator[r] < Len(inputFiles[input_tf_record_filename(r)])
    /\ Raise(r, "io")
    /\ UNCHANGED <<size, inputFiles, outputFiles, input_tf_record_filenames,
                   i, tf_record_iterator, image_count, original_len_total,
                   resized_len_total, visited, completed, opened, replaced, run>>

\* The iterator is exhausted: the writer is closed, the means are computed
\* and printed, and the loop of worker advances.
shard_summary(r) ==
    /\ pc[r] = "for"
    /\ tf_record_iterator[r] = Len(inputFiles[input_tf_record_filename(r)])
    /\ image_count[r] # 0
    /\ writers' = [writers EXCEPT
          ![r] = close_writer(@, output_tf_record_filename(r))]
    /\ completed' = [completed EXCEPT ![r] = @ \cup {i[r]}]
    /\ i' = [i EXCEPT ![r] = next_index(@, size)]
    /\ pc' = [pc EXCEPT ![r] = "while"]
    /\ UNCHANGED <<size, inputFiles, outputFiles, input_tf_record_filenames,
                   tf_record_iterator, image_count, original_len_total,
                   resized_len_total, visited, fatal, exit_status, run, opened, replaced>>

\* The same with image_count = 0: original_len_total / image_count raises
\* ZeroDivisionError after the writer was closed.
shard_summary_raises(r) ==
    /\ pc[r] = "for"
    /\ tf_record_iterator[r] = Len(inputFiles[input_tf_record_filename(r)])
    /\ image_count[r] = 0
    /\ Raise(r, "zerodiv")
    /\ UNCHANGED <<size, inputFiles, outputFiles, input_tf_record_filenames,
                   i, tf_record_iterator, image_count, original_len_total,
                   resized_len_total, visited, completed, opened, replaced, run>>

\* The operator launches the job again once every process has ended.
relaunch ==
    /\ run < MaxRuns
    /\ \A r \in 0..(size - 1) : pc[r] \in {"done", "aborted"}
    /\ run' = run + 1
    /\ pc' = [r \in Ranks |-> "idle"]
    /\ input_tf_record_filenames' = [r \in Ranks |-> <<>>]
    /\ i' = [r \in Ranks |-> 0]
    /\ tf_record_iterator' = [r \in Ranks |-> 0]
    /\ image_count' = [r \in Ranks |-> 0]
    /\ original_len_total' = [r \in Ranks |-> 0]
    /\ resized_len_total' = [r \in Ranks |-> 0]
    /\ writers' = [r \in Ranks |-> {}]
    /\ visited' = [r \in Ranks |-> <<>>]
    /\ completed' = [r \in Ranks |-> {}]
    /\ opened' = [r \in Ranks |-> {}]
    /\ replaced' = [r \in Ranks |-> Absent]
    /\ fatal' = [r \in Ranks |-> "none"]
    /\ exit_status' = [r \in Ranks |-> -1]
    /\ UNCHANGED <<size, inputFiles, outputFiles>>

Workers == 0..(size - 1)

Next ==
    \/ \E r \in Workers : main(r)
    \/ \E r \in Workers : worker_return(r)
    \/ \E r \in Workers : process_tf_record_file(r)
    \/ \E r \in Workers : writer_open_error(r)
    \/ \E r \in Workers : for_record(r)
    \/ \E r \in Workers : for_record_raises(r)
    \/ \E r \in Workers : for_record_io_error(r)
    \/ \E r \in Workers : shard_summary(r)
    \/ \E r \in Workers : shard_summary_raises(r)

Spec == Init /\ [][Next]_vars

\* Everything one process can do next
WorkerStep(r) ==
    /\ r \in Workers
    /\ \/ main(r)
       \/ worker_return(r)
       \/ process_tf_record_file(r)
       \/ writer_open_error(r)
       \/ for_record(r)
       \/ for_record_raises(r)
       \/ for_record_io_error(r)
       \/ shard_summary(r)
       \/ shard_summary_raises(r)


\* The launch may be repeated over what the earlier launch left behind.
NextRerun ==
    \/ Next
    \/ relaunch

InitRerun ==
    /\ size \in 1..MaxSize
    /\ \E n \in 0..MaxRerunShards :
          inputFiles \in [{<<InputDir, b>> : b \in 1..n} -> RunContents]
    /\ outputFiles = [p \in OutPaths |-> Absent]
    /\ run = 1
    /\ NotStarted

SpecRerun == InitRerun /\ [][NextRerun]_vars

(* ------------- launches over longer lists of small shards ------------- *)
SmallContents ==
    {<<>>, <<RunRecord("ok", 1)>>, <<RunRecord("corrupt_image", 1)>>}

InitPartition ==
    /\ size \in 1..MaxSize
    /\ \E n \in 0..MaxPartition :
          inputFiles \in [{<<InputDir, b>> : b \in 1..n} -> SmallContents]
    /\ outputFiles = [p \in OutPaths |-> Absent]
    /\ run = 1
    /\ NotStarted

SpecPartition == InitPartition /\ [][Next]_vars

\* The same over at most MaxShards shards, and every launched process keeps
\* running until it returns or raises.
InitFair ==
    /\ size \in 1..MaxSize
    /\ \E n \in 0..MaxShards :
          inputFiles \in [{<<InputDir, b>> : b \in 1..n} -> SmallContents]
    /\ outputFiles = [p \in OutPaths |-> Absent]
    /\ run = 1
    /\ NotStarted

FairSpec ==
    /\ InitFair
    /\ [][Next]_vars
    /\ \A r \in Ranks : WF_vars(WorkerStep(r))

(* ------- launches over whatever a glob with wildcards may match ------- *)
InitGlob ==
    /\ size \in 1..MaxSize
    /\ \E S \in SUBSET GlobPaths : inputFiles \in [S -> SmallContents]
    /\ outputFiles = [p \in OutPaths |-> Absent]
    /\ run = 1
    /\ NotStarted

SpecGlob == InitGlob /\ [][Next]_vars

(* ------------- one process, one shard, records of any form ------------ *)
Labels == {1, 2}
Dims == {1, 100}
BoxSet == {<<0, 1, 2, 3>>, <<1, 1, 3, 2>>}
BoxLists == UNION {[1..n -> BoxSet] : n \in 0..MaxBoxes}

AnyRecords(k) ==
    {MkRecord(wire, k, label, boxes, h, w) :
        wire \in Wires, label \in Labels, boxes \in BoxLists,
        h \in Dims, w \in Dims}

ShardContents ==
    {<<>>} \cup {<<rec>> : rec \in AnyRecords(1)}
           \cup {<<RunRecord("ok", 1), rec>> : rec \in AnyRecords(2)}

InitShard ==
    /\ size = 1
    /\ inputFiles \in [{<<InputDir, 1>>} -> ShardContents]
    /\ outputFiles = [p \in OutPaths |-> Absent]
    /\ run = 1
    /\ NotStarted

SpecShard == InitShard /\ [][Next]_vars

(* ============================ properties ============================== *)
SeqSet(s) == {s[k] : k \in DOMAIN s}

\* The shard list every process computes, and its length
Shards == sorted(glob)
N == Len(Shards)

\* {rank, rank+size, rank+2*size, ...} within [0, N)
Assigned(rank) ==
    {k \in 0..(N - 1) : \E m \in 0..N : k = rank + m * size}

\* The output file that belongs to the shard at index k
OutputOf(k) == outputFiles[join(output_dir, basename(Shards[k + 1]))]

InputOf(k) == inputFiles[Shards[k + 1]]

\* (input record, output record) for every record an output file holds
Rewritten ==
    UNION {{<<InputOf(k)[j], OutputOf(k).records[j]>> :
               j \in 1..Len(OutputOf(k).records)} : k \in 0..(N - 1)}

\* C1: the index sets the ranks visit, {rank, rank+size, ...} within [0, N),
\* are pairwise disjoint and together are exactly [0, N): no rank ever
\* visits an index outside its set or inside another rank's, a rank that
\* returns has visited exactly its set, and when all have returned every
\* index was visited.
C1_Partition ==
    /\ \A r \in Workers : SeqSet(visited[r]) \subseteq Assigned(r)
    /\ \A r, q \in Workers :
          r # q => SeqSet(visited[r]) \cap SeqSet(visited[q]) = {}
    /\ \A r \in Workers : pc[r] = "done" => SeqSet(visited[r]) = Assigned(r)
    /\ (\A r \in Workers : pc[r] = "done")
          => UNION {SeqSet(visited[r]) : r \in Workers} = 0..(N - 1)

\* Five shards and two ranks: rank 0 has taken [a, c, e], rank 1 [b, d].
C1_Witness ==
    /\ size = 2
    /\ N = 5
    /\ \A r \in Workers : pc[r] = "done"
    /\ visited[0] = <<0, 2, 4>>
    /\ visited[1] = <<1, 3>>

C3_OutputPathsDisjoint ==
    \A r, q \in Workers : r # q => opened[r] \cap opened[q] = {}

BasenamesDistinct ==
    \A p, q \in glob : basename(p) = basename(q) => p = q

\* C3, amended: when no two shards of the list have the same basename, no
\* two ranks open the same output path for writing.
C3_DisjointForDistinctBasenames ==
    BasenamesDistinct => C3_OutputPathsDisjoint

\* Shards of two directories with different basenames, both ranks writing.
C3_Witness ==
    /\ BasenamesDistinct
    /\ \E p, q \in glob : p[1] # q[1]
    /\ size = 2
    /\ opened[0] # {}
    /\ opened[1] # {}

\* C4: the output of every shard whose call returned holds as many records
\* as the input, the j-th of them written from the j-th input record.
C4_RecordCountPreserved ==
    \A r \in Workers : \A k \in completed[r] :
        /\ OutputOf(k).exists
        /\ Len(OutputOf(k).records) = Len(InputOf(k))
        /\ \A j \in 1..Len(InputOf(k)) :
              OutputOf(k).records[j].image_filename =
                  <<basename(InputOf(k)[j].filename)>>

\* A shard of two records was rewritten.
C4_Witness ==
    \E r \in Workers : \E k \in completed[r] :
        /\ Len(InputOf(k)) = 2
        /\ Len(OutputOf(k).records) = 2

\* C5 as stated: the mean over a shard without records never ends the
\* process.
C5_EmptyShardGuarded ==
    \A r \in Workers : fatal[r] # "zerodiv"

\* C6: whatever the output file held when the writer opened it, the output
\* of a shard whose call returned is the input rewritten record by record,
\* and no step changes an input shard.
C6_ReprocessingIdempotent ==
    /\ [](\A r \in Workers : \A k \in completed[r] :
            OutputOf(k) =
                [exists  |-> TRUE,
                 records |-> [j \in 1..Len(InputOf(k)) |->
                                resize_record(InputOf(k)[j])]])
    /\ [][inputFiles' = inputFiles]_vars

\* In the second launch a shard was rewritten over the truncated output
\* that the first launch left.
C6_Witness ==
    \E r \in Workers :
        /\ run = 2
        /\ pc[r] = "while"
        /\ visited[r] # <<>>
        /\ visited[r][Len(visited[r])] \in completed[r]
        /\ replaced[r].exists
        /\ Len(replaced[r].records) > 0
        /\ Len(replaced[r].records) < Len(InputOf(visited[r][Len(visited[r])]))

\* C7: the four bbox coordinate lists of every output record are those of
\* its input record: same length, same values, same order.
C7_BboxUnchanged ==
    \A io \in Rewritten :
        /\ io[2].image_object_bbox_xmin = io[1].xmin
        /\ io[2].image_object_bbox_ymin = io[1].ymin
        /\ io[2].image_object_bbox_xmax = io[1].xmax
        /\ io[2].image_object_bbox_ymax = io[1].ymax

\* A record with two boxes whose image dimensions changed.
C7_Witness ==
    \E io \in Rewritten :
        /\ Len(io[1].xmin) = 2
        /\ io[1].xmin # io[1].ymin
        /\ io[1].xmin[1] # 0
        /\ io[2].image_height # <<io[1].height>>

\* C8: the height and width of every output record are floor(H * 3.0) and
\* floor(W * 3.0) of the input record, 100 x 100 becoming 300 x 300.
C8_DimensionLaw ==
    \A io \in Rewritten :
        /\ io[2].image_height = <<(io[1].height * 30) \div 10>>
        /\ io[2].image_width = <<(io[1].width * 30) \div 10>>
        /\ (io[1].height = 100 /\ io[1].width = 100) =>
              (io[2].image_height = <<300>> /\ io[2].image_width = <<300>>)

\* The 100 x 100 record was written as 300 x 300.
C8_Witness ==
    \E io \in Rewritten :
        /\ io[1].height = 100
        /\ io[1].width = 100
        /\ io[2].image_height = <<300>>
        /\ io[2].image_width = <<300>>

\* C9: the per-object label list of every output record has one element
\* per bbox, each the record's label.
C9_LabelPerBox ==
    \A io \in Rewritten :
        /\ Len(io[2].image_object_bbox_label) = Len(io[1].xmin)
        /\ \A j \in 1..Len(io[2].image_object_bbox_label) :
              io[2].image_object_bbox_label[j] = io[1].label

\* A record of label 2 with two boxes was written.
C9_Witness ==
    \E io \in Rewritten :
        /\ Len(io[1].xmin) = 2
        /\ io[1].label = 2
        /\ io[2].image_object_bbox_label = <<2, 2>>

\* C10: a process visits the indices rank, rank+size, ... in this order,
\* each once; it has at most one writer open and none between two shards;
\* one that returns has rewritten every shard of its partition; and every
\* process that meets no fatal error returns.
C10_ForwardProgress ==
    /\ [](\A r \in Workers :
            /\ \A k \in 1..Len(visited[r]) :
                  visited[r][k] = r + (k - 1) * size
            /\ Cardinality(writers[r]) <= 1
            /\ pc[r] # "for" => writers[r] = {}
            /\ pc[r] = "done" =>
                  (fatal[r] = "none" /\ completed[r] = Assigned(r)))
    /\ \A r \in Ranks :
          <>(r \notin Workers \/ pc[r] = "done" \/ fatal[r] # "none")

\* A process returned after three shards.
C10_Witness ==
    \E r \in Workers :
        /\ pc[r] = "done"
        /\ visited[r] = <<0, 1, 2>>
        /\ completed[r] = {0, 1, 2}

====
